---- MODULE Spec2Model ----
(***************************************************************************)
(* A model of the OneDrive authorization testing harness:                  *)
(*   policy_model.py            AuthorizationPolicy (evaluate, scenarios)  *)
(*   test_framework.py          OneDriveTestFramework and its main script  *)
(*   Test_multiFramework_User.py MultiUserTestFramework and its main script*)
(* The remote service (Microsoft Graph, behind OneDriveClient) is the      *)
(* environment: every call answers with some status code or raises.        *)
(***************************************************************************)
EXTENDS Integers, Sequences, FiniteSets, TLC

VARIABLES
    call,          \* the pending call of a pure function (PureSpec), or NoCall
    ret,           \* what that call returned, "pending" before it returns
    engine,        \* which main script runs: "single" (test_framework.py) or "multi"
    pc,            \* position of the main script
    pass,          \* single: index into AUDIENCES of the pass being run
    idx,           \* number of scenarios of the current pass already attempted
    test_files,    \* per framework instance: visibility -> fixture
    test_results,  \* per framework instance: the list of results
    remote_log,    \* every remote operation issued so far, in order
    faults,        \* environment answers so far that were not the nominal one
    generated,     \* the lists the calls of generate_all_scenarios returned so far
    reports,       \* per framework instance: what analyze_results printed
    exports        \* per framework instance: the summary export_results wrote

vars == <<call, ret, engine, pc, pass, idx, test_files, test_results, remote_log, faults,
          generated, reports, exports>>

runvars == <<engine, pc, pass, idx, test_files, test_results, remote_log, faults,
             reports, exports>>

(***************************************************************************)
(* Bounds of the model.                                                    *)
(***************************************************************************)
\* environment answers other than the nominal one (status 200, share id given)
MaxFaults == 1
\* the status codes a classification call is tried on: MinStatus..MaxStatus
MinStatus == 100
MaxStatus == 599
\* calls of generate_all_scenarios in one behaviour of PolicySpec
MaxGenerated == 2
\* longest result list analyze_results is called on by itself
MaxAnalyzed == 5

(***************************************************************************)
(* policy_model.py                                                         *)
(***************************************************************************)
AUDIENCES == <<"owner", "invited_user", "normal_user">>

VISIBILITY_LEVELS == <<"private", "public_view_link", "public_edit_link", "collab_invite">>

\* AuthorizationPolicy.ACTIONS (ACTIONS is a reserved word of TLA+)
ACTION_NAMES == <<"read", "write", "delete", "share">>

Range(s) == {s[i] : i \in DOMAIN s}

NoCall == [fn |-> "none"]

\* Mutant: the private rule is tried before the owner rule.
evaluate_private_first(audience, visibility, action, is_owner, has_permission, same_org) ==
    IF visibility = "private"
    THEN IF has_permission /\ action \in {"read", "write"} THEN "ALLOW" ELSE "DENY"
    ELSE IF is_owner THEN "ALLOW"
    ELSE IF visibility = "public_view_link"
    THEN IF has_permission /\ action = "read" THEN "ALLOW" ELSE "DENY"
    ELSE IF visibility \in {"public_edit_link", "collab_invite"}
    THEN IF has_permission /\ action \in {"read", "write"} THEN "ALLOW" ELSE "DENY"
    ELSE "DENY"

\* Mutant: a view link grants what an edit link grants.
evaluate_view_as_edit(audience, visibility, action, is_owner, has_permission, same_org) ==
    IF is_owner THEN "ALLOW"
    ELSE IF visibility \in {"private", "public_view_link", "public_edit_link", "collab_invite"}
    THEN IF has_permission /\ action \in {"read", "write"} THEN "ALLOW" ELSE "DENY"
    ELSE "DENY"

\* Mutant: the invite rule forgets the action test.
evaluate_invite_any_action(audience, visibility, action, is_owner, has_permission, same_org) ==
    IF is_owner THEN "ALLOW"
    ELSE IF visibility = "public_view_link"
    THEN IF has_permission /\ action = "read" THEN "ALLOW" ELSE "DENY"
    ELSE IF visibility \in {"private", "public_edit_link"}
    THEN IF has_permission /\ action \in {"read", "write"} THEN "ALLOW" ELSE "DENY"
    ELSE IF visibility = "collab_invite"
    THEN IF has_permission THEN "ALLOW" ELSE "DENY"
    ELSE "DENY"

\* Mutant: the final `return 'DENY'` is missing, so the function falls off its
\* end and returns None.
evaluate_no_default(audience, visibility, action, is_owner, has_permission, same_org) ==
    IF is_owner THEN "ALLOW"
    ELSE IF visibility = "public_view_link"
    THEN IF has_permission /\ action = "read" THEN "ALLOW" ELSE "DENY"
    ELSE IF visibility \in {"private", "public_edit_link", "collab_invite"}
    THEN IF has_permission /\ action \in {"read", "write"} THEN "ALLOW" ELSE "DENY"
    ELSE "None"

\* Mutant: the last rule is an else branch, so it also takes every visibility
\* the rules above did not name.
evaluate_last_rule_else(audience, visibility, action, is_owner, has_permission, same_org) ==
    IF is_owner THEN "ALLOW"
    ELSE IF visibility = "public_view_link"
    THEN IF has_permission /\ action = "read" THEN "ALLOW" ELSE "DENY"
    ELSE IF has_permission /\ action \in {"read", "write"} THEN "ALLOW" ELSE "DENY"

\* Mutant: a member of the owner's organization is treated as the owner.
evaluate_same_org_as_owner(audience, visibility, action, is_owner, has_permission, same_org) ==
    IF is_owner \/ (same_org /\ audience = "org_member") THEN "ALLOW"
    ELSE IF visibility = "public_view_link"
    THEN IF has_permission /\ action = "read" THEN "ALLOW" ELSE "DENY"
    ELSE IF visibility \in {"private", "public_edit_link", "collab_invite"}
    THEN IF has_permission /\ action \in {"read", "write"} THEN "ALLOW" ELSE "DENY"
    ELSE "DENY"

\* AuthorizationPolicy.evaluate: the rules in the order of the code, first
\* match returns.
evaluate(audience, visibility, action, is_owner, has_permission, same_org) ==
    IF is_owner THEN "ALLOW"
    ELSE IF visibility = "private"
    THEN IF has_permission
         THEN IF action \in {"read", "write"} THEN "ALLOW" ELSE "DENY"
         ELSE "DENY"
    ELSE IF visibility = "public_view_link"
    THEN IF has_permission /\ action = "read" THEN "ALLOW" ELSE "DENY"
    ELSE IF visibility = "public_edit_link"
    THEN IF has_permission /\ action \in {"read", "write"} THEN "ALLOW" ELSE "DENY"
    ELSE IF visibility = "collab_invite"
    THEN IF has_permission /\ action \in {"read", "write"} THEN "ALLOW" ELSE "DENY"
    ELSE "DENY"

\* Mutant: collab_invite grants permission to every audience.
derive_has_permission_any_invitee(audience, visibility) ==
    IF visibility = "public_view_link" THEN TRUE
    ELSE IF visibility = "public_edit_link" THEN TRUE
    ELSE IF visibility = "collab_invite" THEN TRUE
    ELSE FALSE

\* The context generate_all_scenarios derives for one (audience, visibility).
derive_has_permission(audience, visibility) ==
    IF visibility = "public_view_link" THEN TRUE
    ELSE IF visibility = "public_edit_link" THEN TRUE
    ELSE IF visibility = "collab_invite" /\ audience = "invited_user" THEN TRUE
    ELSE FALSE

\* The state of a call of generate_all_scenarios before its loops: the locals
\* `scenarios = []` and `scenario_id = 1`.
generate_locals == [scenarios |-> <<>>, scenario_id |-> 1]

\* The body of the innermost loop: derive the context, ask the policy for the
\* expected decision, append the scenario and count.
append_scenario(st, audience, visibility, action) ==
    LET is_owner == (audience = "owner")
        has_permission == derive_has_permission(audience, visibility)
        expected == evaluate(audience, visibility, action, is_owner, has_permission, FALSE)
    IN  [scenarios |-> Append(st.scenarios,
                              [scenario_id |-> st.scenario_id,
                               audience |-> audience,
                               visibility |-> visibility,
                               action |-> action,
                               is_owner |-> is_owner,
                               has_permission |-> has_permission,
                               expected |-> expected]),
         scenario_id |-> st.scenario_id + 1]

\* Mutant: the innermost loop walks ACTIONS from its last element to its first.
RECURSIVE action_loop_backwards(_, _, _, _)
action_loop_backwards(st, audience, visibility, k) ==
    IF k > Len(ACTION_NAMES) THEN st
    ELSE action_loop_backwards(
             append_scenario(st, audience, visibility,
                             ACTION_NAMES[Len(ACTION_NAMES) + 1 - k]),
             audience, visibility, k + 1)

\* for action in self.ACTIONS, from the k-th action on.
RECURSIVE action_loop(_, _, _, _)
action_loop(st, audience, visibility, k) ==
    IF k > Len(ACTION_NAMES) THEN st
    ELSE action_loop(append_scenario(st, audience, visibility, ACTION_NAMES[k]),
                     audience, visibility, k + 1)

\* for visibility in self.VISIBILITY_LEVELS, from the j-th visibility on.
RECURSIVE visibility_loop(_, _, _)
visibility_loop(st, audience, j) ==
    IF j > Len(VISIBILITY_LEVELS) THEN st
    ELSE visibility_loop(action_loop(st, audience, VISIBILITY_LEVELS[j], 1),
                         audience, j + 1)

\* for audience in self.AUDIENCES, from the i-th audience on.
RECURSIVE audience_loop(_, _)
audience_loop(st, i) ==
    IF i > Len(AUDIENCES) THEN st
    ELSE audience_loop(visibility_loop(st, AUDIENCES[i], 1), i + 1)

\* The locals when the three nested loops have run from the fresh locals.
generate_loops == audience_loop(generate_locals, 1)

\* Mutant: the counter is kept across calls instead of being a local set to 1,
\* so a later call numbers its scenarios on from where the calls before stopped.
generate_all_scenarios_leaking ==
    LET leaked == Len(generated) * Len(AUDIENCES)
                      * Len(VISIBILITY_LEVELS) * Len(ACTION_NAMES)
    IN  [n \in DOMAIN generate_loops.scenarios |->
            [generate_loops.scenarios[n] EXCEPT !.scenario_id = @ + leaked]]

\* AuthorizationPolicy.generate_all_scenarios: the list it returns.
generate_all_scenarios ==
    generate_loops.scenarios

(***************************************************************************)
(* Status classification, test_scenario of each framework.                 *)
(***************************************************************************)
Engines == {"single", "multi"}

\* OneDriveTestFramework.test_scenario: the status code of the response to
\* an outcome.
classify_single(status_code) ==
    IF status_code \in {200, 201} THEN "ALLOW"
    ELSE IF status_code \in {400, 403, 404} THEN "DENY"
    ELSE "UNKNOWN"

\* MultiUserTestFramework.test_scenario: the status code of the response to
\* an outcome.
classify_multi(status_code) ==
    IF status_code \in {200, 201} THEN "ALLOW"
    ELSE IF status_code \in {403, 404, 401} THEN "DENY"
    ELSE "UNKNOWN"

classify(eng, status_code) ==
    IF eng = "single" THEN classify_single(status_code) ELSE classify_multi(status_code)

(***************************************************************************)
(* The framework objects and the remote service.                           *)
(***************************************************************************)
\* test_framework.py builds one OneDriveTestFramework per audience;
\* Test_multiFramework_User.py builds one MultiUserTestFramework.
Instances == Range(AUDIENCES) \cup {"multi"}

\* An answer of the remote service to a call: a response with a status code,
\* or the call raises.
Answered(status_code) == [raised |-> FALSE, status_code |-> status_code]

Raised == [raised |-> TRUE, status_code |-> 0]

\* What the remote service may answer to the call of a scenario: one status
\* code of each class of the classification, or the call raises. 200 is the
\* nominal answer.
RunAnswers == {Answered(c) : c \in {200, 404, 500}} \cup {Raised}

NoRef == <<>>

\* The fixtures setup_test_environment creates, in order.
specs_single == <<"private", "public_view_link", "public_edit_link", "collab_invite">>

visibility_levels_multi == <<"private", "shared", "org_public", "public">>

FixtureSpecs(eng) == IF eng = "single" THEN specs_single ELSE visibility_levels_multi

\* The sharing call setup makes after creating the fixture of visibility v.
sharing_op_single(v) ==
    IF v = "public_view_link" THEN "share_file"
    ELSE IF v = "public_edit_link" THEN "share_file"
    ELSE IF v = "collab_invite" THEN "invite_user"
    ELSE "none"

sharing_op_multi(v) == IF v = "shared" THEN "share_file" ELSE "none"

SharingOp(eng, v) == IF eng = "single" THEN sharing_op_single(v) ELSE sharing_op_multi(v)

SharingVis(eng) == {v \in Range(FixtureSpecs(eng)) : SharingOp(eng, v) # "none"}

LogEntry(client, op, target, sid, answer) ==
    [client |-> client, op |-> op, target |-> target, sid |-> sid, answer |-> answer]

\* The calls of one iteration of setup's loop: create_file, then, when the
\* file was created, the sharing call of its visibility. `created` are the
\* visibilities whose create_file answered 200 or 201, `shared` those whose
\* sharing call gave a sharing reference.
FixtureCalls(eng, v, created, shared) ==
    <<LogEntry("owner", "create_file", <<"path", v>>, 0,
               IF v \in created THEN Answered(201) ELSE Answered(500))>>
    \o (IF v \in created /\ SharingOp(eng, v) # "none"
        THEN <<LogEntry("owner", SharingOp(eng, v), <<"item", v>>, 0,
                        IF v \in shared THEN Answered(200) ELSE Answered(500))>>
        ELSE <<>>)

RECURSIVE LoopCalls(_, _, _, _)
LoopCalls(eng, n, created, shared) ==
    IF n = 0 THEN <<>>
    ELSE LoopCalls(eng, n - 1, created, shared)
         \o FixtureCalls(eng, FixtureSpecs(eng)[n], created, shared)

\* The get_user_info calls that open setup: the owner's, and in the multi-user
\* framework the collaborator's unless the owner's already failed.
UserInfoCalls(eng, info) ==
    <<LogEntry("owner", "get_user_info", <<"me">>, 0,
               IF info = "owner_fail" THEN Answered(500) ELSE Answered(200))>>
    \o (IF eng = "multi" /\ info # "owner_fail"
        THEN <<LogEntry("collab", "get_user_info", <<"me">>, 0,
                        IF info = "collab_fail" THEN Answered(500) ELSE Answered(200))>>
        ELSE <<>>)

\* The fixture record setup stores for a created file.
fixture_single(v, shared) ==
    [id |-> <<"item", v>>, name |-> v,
     share_id |-> IF v \in shared THEN <<"share", v>> ELSE NoRef]

fixture_multi(v, shared) ==
    [id |-> <<"item", v>>, name |-> v,
     share_link |-> IF v \in shared THEN <<"share", v>> ELSE NoRef]

\* OneDriveTestFramework.setup_test_environment: what it leaves in test_files
\* and the calls it makes. A create_file that fails is printed and skipped;
\* a failed get_user_info only skips a print.
setup_test_environment_single(info, created, shared) ==
    [returned |-> TRUE,
     files |-> [v \in created |-> fixture_single(v, shared)],
     calls |-> UserInfoCalls("single", info) \o LoopCalls("single", Len(specs_single), created, shared)]

\* MultiUserTestFramework.setup_test_environment: returns False before any
\* file is created when either get_user_info does not answer 200; a
\* create_file that fails is printed and skipped, and the function returns True.
setup_test_environment_multi(info, created, shared) ==
    IF info # "ok"
    THEN [returned |-> FALSE, files |-> <<>>, calls |-> UserInfoCalls("multi", info)]
    ELSE [returned |-> TRUE,
          files |-> [v \in created |-> fixture_multi(v, shared)],
          calls |-> UserInfoCalls("multi", info)
                    \o LoopCalls("multi", Len(visibility_levels_multi), created, shared)]

setup_test_environment(eng, info, created, shared) ==
    IF eng = "single" THEN setup_test_environment_single(info, created, shared)
    ELSE setup_test_environment_multi(info, created, shared)

NoResult == [scenario_id |-> 0]

\* Mutant: a missing fixture is reported as the remote service's "not found".
missing_fixture_as_denied(s) ==
    [scenario_id |-> s.scenario_id, scenario |-> s, expected |-> s.expected,
     actual |-> "DENY", passed |-> (s.expected = "DENY"), error |-> "Test file not found",
     tested_by |-> "absent"]

\* The result test_scenario returns without calling the remote service when
\* the fixture of the scenario's visibility is missing.
missing_fixture_result(s) ==
    [scenario_id |-> s.scenario_id, scenario |-> s, expected |-> s.expected,
     actual |-> "ERROR", passed |-> FALSE, error |-> "Test file not found",
     tested_by |-> "absent"]

\* Mutant: a result passes when the remote service allowed the operation.
scenario_result_allowed_passes(s, actual, tested_by) ==
    [scenario_id |-> s.scenario_id, scenario |-> s, expected |-> s.expected,
     actual |-> actual, passed |-> (actual = "ALLOW"), error |-> "absent",
     tested_by |-> tested_by]

\* The result test_scenario builds once the outcome is classified.

scenario_result(s, actual, tested_by) ==
    [scenario_id |-> s.scenario_id, scenario |-> s, expected |-> s.expected,
     actual |-> actual, passed |-> (s.expected = actual), error |-> "absent",
     tested_by |-> tested_by]

\* Mutant: 'delete' is dispatched to the delete methods of the client.
dispatch_single_destructive(action, use_share) ==
    IF action = "read" THEN (IF use_share THEN "read_file_via_share" ELSE "read_file")
    ELSE IF action = "write" THEN (IF use_share THEN "update_file_via_share" ELSE "update_file")
    ELSE IF action = "delete" THEN (IF use_share THEN "delete_file_via_share" ELSE "delete_file")
    ELSE IF action = "share" THEN (IF use_share THEN "share_file_via_share" ELSE "share_file")
    ELSE "none"

\* The client method an action is dispatched to; "none" is the else branch,
\* which makes no call and takes the response to be status 400.
dispatch_single(action, use_share) ==
    IF action = "read" THEN (IF use_share THEN "read_file_via_share" ELSE "read_file")
    ELSE IF action = "write" THEN (IF use_share THEN "update_file_via_share" ELSE "update_file")
    ELSE IF action = "delete" THEN (IF use_share THEN "read_file_via_share" ELSE "read_file")
    ELSE IF action = "share" THEN (IF use_share THEN "share_file_via_share" ELSE "share_file")
    ELSE "none"

dispatch_multi(action) ==
    IF action = "read" THEN "read_file"
    ELSE IF action = "write" THEN "update_file"
    ELSE IF action = "delete" THEN "read_file"
    ELSE IF action = "share" THEN "share_file"
    ELSE "none"

\* Mutant: whoever the framework tests as, a sharing reference is used when
\* there is one.
use_share_whoever(audience, share_id) == share_id # NoRef

\* use_share = self.audience != 'owner' and share_id.
use_share_of(audience, share_id) == audience # "owner" /\ share_id # NoRef

\* OneDriveTestFramework.test_scenario of the framework built for `audience`,
\* when the remote service answers `answer`. When the call raises, the except
\* clause sets actual = 'ERROR', and `return result, response` then reads the
\* local `response`, which was never bound: UnboundLocalError leaves the
\* function.
test_scenario_single(audience, files, s, answer) ==
    IF s.visibility \notin DOMAIN files
    THEN [raised |-> FALSE, calls |-> <<>>, result |-> missing_fixture_result(s)]
    ELSE LET file_id == files[s.visibility].id
             share_id == files[s.visibility].share_id
             use_share == use_share_of(audience, share_id)
             op == dispatch_single(s.action, use_share)
             target == IF use_share THEN share_id ELSE file_id
         IN  IF op = "none"
             THEN [raised |-> FALSE, calls |-> <<>>,
                   result |-> scenario_result(s, classify_single(400), "absent")]
             ELSE IF answer.raised
             THEN [raised |-> TRUE,
                   calls |-> <<LogEntry(audience, op, target, s.scenario_id, answer)>>,
                   result |-> NoResult]
             ELSE [raised |-> FALSE,
                   calls |-> <<LogEntry(audience, op, target, s.scenario_id, answer)>>,
                   result |-> scenario_result(s, classify_single(answer.status_code), "absent")]

\* MultiUserTestFramework.test_scenario: the owner's client for the owner
\* audience, the collaborator's for every other; a call that raises is caught
\* and the result is built with actual = 'ERROR'.
test_scenario_multi(files, s, answer) ==
    IF s.visibility \notin DOMAIN files
    THEN [raised |-> FALSE, calls |-> <<>>, result |-> missing_fixture_result(s)]
    ELSE LET file_id == files[s.visibility].id
             client == IF s.audience = "owner" THEN "owner" ELSE "collab"
             test_user == IF s.audience = "owner" THEN "owner" ELSE "collaborator"
             op == dispatch_multi(s.action)
         IN  IF op = "none"
             THEN [raised |-> FALSE, calls |-> <<>>,
                   result |-> scenario_result(s, classify_multi(400), test_user)]
             ELSE [raised |-> FALSE,
                   calls |-> <<LogEntry(client, op, file_id, s.scenario_id, answer)>>,
                   result |-> scenario_result(s, IF answer.raised THEN "ERROR"
                                                 ELSE classify_multi(answer.status_code),
                                              test_user)]

test_scenario(eng, inst, files, s, answer) ==
    IF eng = "single" THEN test_scenario_single(inst, files, s, answer)
    ELSE test_scenario_multi(files, s, answer)

(***************************************************************************)
(* analyze_results and export_results of each framework.                   *)
(***************************************************************************)
NoReport == [analyzed |-> FALSE]

\* The dictionary a "Group by" loop builds from the first n failures: the
\* keys in the order of their first failure, each with its count.
RECURSIVE group_by(_, _, _)
group_by(failures, field, n) ==
    IF n = 0 THEN <<>>
    ELSE LET d == group_by(failures, field, n - 1)
             key == failures[n].scenario[field]
         IN  IF \E i \in DOMAIN d : d[i].key = key
             THEN [i \in DOMAIN d |->
                      IF d[i].key = key THEN [key |-> key, count |-> d[i].count + 1]
                      ELSE d[i]]
             ELSE Append(d, [key |-> key, count |-> 1])

\* Mutant: the listing is an ascending sort read backwards, so items of equal
\* count come out in the reverse of the order they had.
RECURSIVE sorted_by_count_ties_reversed(_, _)
sorted_by_count_ties_reversed(items, n) ==
    IF n = 0 THEN <<>>
    ELSE LET s == sorted_by_count_ties_reversed(items, n - 1)
             pos == Cardinality({i \in DOMAIN s : s[i].count > items[n].count})
         IN  SubSeq(s, 1, pos) \o <<items[n]>> \o SubSeq(s, pos + 1, Len(s))

\* sorted(items, key=lambda x: x[1], reverse=True) of the first n items: by
\* count, largest first; the sort is stable, so items of equal count keep
\* the order they had.
RECURSIVE sorted_by_count(_, _)
sorted_by_count(items, n) ==
    IF n = 0 THEN <<>>
    ELSE LET s == sorted_by_count(items, n - 1)
             pos == Cardinality({i \in DOMAIN s : s[i].count >= items[n].count})
         IN  SubSeq(s, 1, pos) \o <<items[n]>> \o SubSeq(s, pos + 1, Len(s))

\* The listing printed for one "Failures by" table.
failure_table(failures, field) ==
    LET d == group_by(failures, field, Len(failures))
    IN  sorted_by_count(d, Len(d))

\* The failures of a result list, in the order of the list.
failures_of(results) == SelectSeq(results, LAMBDA r : ~r.passed)

\* What analyze_results prints, given the tables it builds when there are
\* failures, the number of example failures it shows, and whether an example
\* needs the 'tested_by' key (the first example without it raises KeyError).
\* The percentages divide by total: an empty result list raises
\* ZeroDivisionError after the total was printed.
analyze_results_with(results, fields, shown, reads_tested_by) ==
    LET total == Len(results)
        passed == Cardinality({i \in DOMAIN results : results[i].passed})
        failed == total - passed
        failures == failures_of(results)
        examples == SubSeq(failures, 1, IF Len(failures) < shown THEN Len(failures) ELSE shown)
        unreadable == {i \in DOMAIN examples :
                          reads_tested_by /\ examples[i].tested_by = "absent"}
        printed == {i \in DOMAIN examples : \A j \in unreadable : i <= j}
    IN  IF total = 0
        THEN [analyzed |-> TRUE, raised |-> "ZeroDivisionError", total |-> total,
              passed |-> passed, failed |-> failed,
              tables |-> [f \in {} |-> <<>>], examples |-> <<>>]
        ELSE [analyzed |-> TRUE,
              raised |-> IF unreadable # {} THEN "KeyError" ELSE "none",
              total |-> total, passed |-> passed, failed |-> failed,
              tables |-> [f \in (IF failures = <<>> THEN {} ELSE fields) |->
                             failure_table(failures, f)],
              examples |-> [i \in printed |-> examples[i].scenario_id]]

\* OneDriveTestFramework.analyze_results: failures by user type and by action,
\* five examples.
analyze_results_single(results) ==
    analyze_results_with(results, {"audience", "action"}, 5, FALSE)

\* MultiUserTestFramework.analyze_results: failures by user type, by action
\* and by visibility, ten examples, each printed with f['tested_by'], a key
\* the missing-fixture result does not have.
analyze_results_multi(results) ==
    analyze_results_with(results, {"audience", "action", "visibility"}, 10, TRUE)

analyze_results(eng, results) ==
    IF eng = "single" THEN analyze_results_single(results)
    ELSE analyze_results_multi(results)

\* The summary export_results writes.
export_results(results) ==
    [analyzed |-> TRUE,
     total |-> Len(results),
     passed |-> Cardinality({i \in DOMAIN results : results[i].passed}),
     failed |-> Cardinality({i \in DOMAIN results : ~results[i].passed})]

(***************************************************************************)
(* The main scripts.                                                       *)
(***************************************************************************)
\* The framework object the current pass runs on.
Inst == IF engine = "single" THEN AUDIENCES[pass] ELSE "multi"

\* The sequence s from its last element to its first.
Reverse(s) == [n \in DOMAIN s |-> s[Len(s) + 1 - n]]

\* Mutant: a pass walks its scenarios from the last generated to the first.
run_tests_scenarios_reversed ==
    [a \in Range(AUDIENCES) |->
        Reverse(SelectSeq(generate_all_scenarios, LAMBDA s : s.audience = a))]

\* The scenarios of the current pass: run_tests(audience) keeps the generated
\* scenarios of its audience, run_all_tests takes them all.
run_tests_scenarios ==
    [a \in Range(AUDIENCES) |->
        SelectSeq(generate_all_scenarios, LAMBDA s : s.audience = a)]

\* Mutant: the main script runs the invited user's scenarios in its first pass
\* and the owner's in its second.
PassScenarios_invited_first ==
    IF engine = "single"
    THEN run_tests_scenarios[<<"invited_user", "owner", "normal_user">>[pass]]
    ELSE generate_all_scenarios

\* The scenarios of the pass being run.

PassScenarios ==
    IF engine = "single" THEN run_tests_scenarios[AUDIENCES[pass]]
    ELSE generate_all_scenarios

LastPass == IF engine = "single" THEN Len(AUDIENCES) ELSE 1

\* The answers of a setup that were not the nominal one: a failed
\* get_user_info, each failed create_file, each sharing call that gave no
\* sharing reference. The multi-user setup stops at a failed get_user_info.
SetupFaults(eng, info, created, shared) ==
    IF eng = "multi" /\ info # "ok" THEN 1
    ELSE (IF info = "ok" THEN 0 ELSE 1)
         + Cardinality(Range(FixtureSpecs(eng)) \ created)
         + Cardinality((created \cap SharingVis(eng)) \ shared)

Init ==
    /\ call = NoCall
    /\ ret = "none"
    /\ engine \in Engines
    /\ pc = "setup"
    /\ pass = 1
    /\ idx = 0
    /\ test_files = [i \in Instances |-> <<>>]
    /\ test_results = [i \in Instances |-> <<>>]
    /\ remote_log = <<>>
    /\ faults = 0
    /\ generated = <<>>
    /\ reports = [i \in Instances |-> NoReport]
    /\ exports = [i \in Instances |-> NoReport]

\* The main script calls setup_test_environment and it returns. The multi-user
\* main exits when it returned False; test_framework.py ignores what it returns.
Setup ==
    /\ pc = "setup"
    /\ \E info \in {"ok", "owner_fail", "collab_fail"},
          created \in SUBSET Range(FixtureSpecs(engine)) :
          \E shared \in SUBSET (created \cap SharingVis(engine)) :
             LET r == setup_test_environment(engine, info, created, shared)
                 owner == IF engine = "single" THEN "owner" ELSE "multi"
             IN  /\ info = "collab_fail" => engine = "multi"
                 /\ info # "ok" /\ engine = "multi" => created = {}
                 /\ faults + SetupFaults(engine, info, created, shared) <= MaxFaults
                 /\ faults' = faults + SetupFaults(engine, info, created, shared)
                 /\ test_files' = [test_files EXCEPT ![owner] = r.files]
                 /\ remote_log' = remote_log \o r.calls
                 /\ pc' = IF engine = "multi" /\ ~r.returned THEN "aborted" ELSE "run"
    /\ UNCHANGED <<call, ret, generated, reports, exports, engine, pass, idx, test_results>>

\* A call of setup_test_environment raises (no call of it is inside a try):
\* the exception leaves the main script. The calls before it were answered
\* nominally.
SetupRaises ==
    /\ pc = "setup"
    /\ faults + 1 <= MaxFaults
    /\ LET all == Range(FixtureSpecs(engine))
           full == setup_test_environment(engine, "ok", all, SharingVis(engine)).calls
       IN  \E n \in 1..Len(full) :
              remote_log' = remote_log \o SubSeq(full, 1, n - 1)
                            \o <<[full[n] EXCEPT !.answer = Raised]>>
    /\ faults' = faults + 1
    /\ pc' = "setup_raised"
    /\ UNCHANGED <<call, ret, generated, reports, exports, engine, pass, idx, test_files, test_results>>

\* One iteration of the loop of run_tests / run_all_tests: test_scenario on the
\* next scenario, then the append of its result. An exception that leaves
\* test_scenario leaves the loop and the main script.
RunTestsStep ==
    /\ pc = "run"
    /\ idx < Len(PassScenarios)
    /\ \E answer \in RunAnswers :
          LET s == PassScenarios[idx + 1]
              r == test_scenario(engine, Inst, test_files[Inst], s, answer)
              cost == IF answer = Answered(200) THEN 0 ELSE 1
          IN  /\ r.calls = <<>> => answer = Answered(200)
              /\ faults + cost <= MaxFaults
              /\ faults' = faults + cost
              /\ remote_log' = remote_log \o r.calls
              /\ IF r.raised
                 THEN /\ pc' = "run_raised"
                      /\ UNCHANGED <<test_results, idx>>
                 ELSE /\ pc' = pc
                      /\ test_results' = [test_results EXCEPT ![Inst] = Append(@, r.result)]
                      /\ idx' = idx + 1
    /\ UNCHANGED <<call, ret, generated, reports, exports, engine, pass, test_files>>

\* test_framework.py main, between two passes: after the owner's pass the two
\* other frameworks are given the owner framework's test_files.
NextPass ==
    /\ pc = "run"
    /\ idx = Len(PassScenarios)
    /\ pass < LastPass
    /\ pass' = pass + 1
    /\ idx' = 0
    /\ test_files' = IF pass = 1
                     THEN [i \in Instances |->
                             IF i \in {"invited_user", "normal_user"}
                             THEN test_files["owner"] ELSE test_files[i]]
                     ELSE test_files
    /\ UNCHANGED <<call, ret, generated, reports, exports, engine, pc, test_results, remote_log, faults>>

\* The last pass is over: "TESTS COMPLETED".
Finish ==
    /\ pc = "run"
    /\ idx = Len(PassScenarios)
    /\ pass = LastPass
    /\ pc' = "analyze"
    /\ UNCHANGED <<call, ret, generated, reports, exports, engine, pass, idx, test_files, test_results, remote_log, faults>>

\* The framework objects in the order the main script analyzes and exports them.
ReportOrder == IF engine = "single" THEN AUDIENCES ELSE <<"multi">>

\* The framework object whose analyze_results / export_results comes next.
ReportInst ==
    ReportOrder[Cardinality({n \in DOMAIN ReportOrder : exports[ReportOrder[n]].analyzed}) + 1]

\* The main script calls analyze_results of the next framework object; an
\* exception it raises leaves the main script.
AnalyzeResults ==
    /\ pc = "analyze"
    /\ LET r == analyze_results(engine, test_results[ReportInst])
       IN  /\ reports' = [reports EXCEPT ![ReportInst] = r]
           /\ pc' = IF r.raised = "none" THEN "export" ELSE "analyze_raised"
    /\ UNCHANGED <<call, ret, generated, exports, engine, pass, idx, test_files,
                   test_results, remote_log, faults>>

\* The main script calls export_results of the framework object just analyzed.
ExportResults ==
    /\ pc = "export"
    /\ exports' = [exports EXCEPT ![ReportInst] = export_results(test_results[ReportInst])]
    /\ pc' = IF ReportInst = ReportOrder[Len(ReportOrder)] THEN "done" ELSE "analyze"
    /\ UNCHANGED <<call, ret, generated, reports, engine, pass, idx, test_files,
                   test_results, remote_log, faults>>

Next ==
    \/ Setup
    \/ SetupRaises
    \/ RunTestsStep
    \/ NextPass
    \/ Finish
    \/ AnalyzeResults
    \/ ExportResults

Spec == Init /\ [][Next]_vars

(***************************************************************************)
(* Calls of the pure functions on arbitrary arguments.                     *)
(***************************************************************************)
\* Arguments inside and outside the declared enumerations ("shared",
\* "org_public" and "public" are the visibilities MultiUserTestFramework
\* provisions; "org_member" and "move" are in no list of the repository).
AudienceArgs == Range(AUDIENCES) \cup {"org_member"}

VisibilityArgs == Range(VISIBILITY_LEVELS) \cup {"shared", "org_public", "public"}

ActionArgs == Range(ACTION_NAMES) \cup {"move"}

StatusArgs == MinStatus..MaxStatus

EvaluateCalls ==
    [fn : {"evaluate"}, audience : AudienceArgs, visibility : VisibilityArgs,
     action : ActionArgs, is_owner : BOOLEAN, has_permission : BOOLEAN,
     same_org : BOOLEAN]

ClassifyCalls == [fn : {"classify"}, engine : Engines, status_code : StatusArgs]

\* The results the first n generated scenarios leave in test_results when the
\* remote service answers 200 to every call and 'private' is the one
\* generated visibility that has a fixture.
RECURSIVE results_of_first(_, _)
results_of_first(eng, n) ==
    IF n = 0 THEN <<>>
    ELSE Append(results_of_first(eng, n - 1),
                test_scenario(eng, "owner",
                              setup_test_environment(eng, "ok", {"private"}, {}).files,
                              generate_all_scenarios[n], Answered(200)).result)

\* analyze_results of a framework object on the result list it holds: the
\* empty list of a new object, or of a run_tests whose audience no scenario
\* has, and the lists a pass leaves.
AnalyzeCalls ==
    {[fn |-> "analyze_results", engine |-> eng, results |-> results_of_first(eng, n)] :
        eng \in Engines, n \in 0..MaxAnalyzed}

\* No main script runs while a pure function is called on its own.
RunIdle ==
    /\ engine = "single"
    /\ pc = "idle"
    /\ pass = 1
    /\ idx = 0
    /\ test_files = [i \in Instances |-> <<>>]
    /\ test_results = [i \in Instances |-> <<>>]
    /\ remote_log = <<>>
    /\ faults = 0
    /\ generated = <<>>
    /\ reports = [i \in Instances |-> NoReport]
    /\ exports = [i \in Instances |-> NoReport]

PureInit ==
    /\ call \in EvaluateCalls \cup ClassifyCalls \cup AnalyzeCalls
    /\ ret = "pending"
    /\ RunIdle

Evaluate ==
    /\ call.fn = "evaluate"
    /\ ret = "pending"
    /\ ret' = evaluate(call.audience, call.visibility, call.action,
                       call.is_owner, call.has_permission, call.same_org)
    /\ UNCHANGED <<call, generated, runvars>>

Classify ==
    /\ call.fn = "classify"
    /\ ret = "pending"
    /\ ret' = classify(call.engine, call.status_code)
    /\ UNCHANGED <<call, generated, runvars>>

\* analyze_results returns, or an exception leaves it: ret names the exception,
\* "none" when there was none.
Analyze ==
    /\ call.fn = "analyze_results"
    /\ ret = "pending"
    /\ ret' = analyze_results(call.engine, call.results).raised
    /\ UNCHANGED <<call, generated, runvars>>

PureNext == Evaluate \/ Classify \/ Analyze

PureSpec == PureInit /\ [][PureNext]_vars

(***************************************************************************)
(* Calls of generate_all_scenarios, on one AuthorizationPolicy object or   *)
(* another, with calls of evaluate between them.                           *)
(***************************************************************************)
\* The AuthorizationPolicy objects: each framework object builds its own.
Policies == {"policy_1", "policy_2"}

\* The calls of evaluate made between two calls of generate_all_scenarios:
\* arguments of the declared lists, is_owner as the audience has it.
EvaluateBetweenCalls ==
    {c \in [fn : {"evaluate"}, audience : Range(AUDIENCES),
            visibility : Range(VISIBILITY_LEVELS), action : Range(ACTION_NAMES),
            is_owner : BOOLEAN, has_permission : BOOLEAN, same_org : {FALSE}] :
        c.is_owner = (c.audience = "owner")}

PolicyInit ==
    /\ call = NoCall
    /\ ret = "none"
    /\ RunIdle

\* A call of generate_all_scenarios on the policy object p returns; `after`
\* names the call made before it.
GenerateAllScenarios ==
    /\ Len(generated) < MaxGenerated
    /\ \E p \in Policies :
          /\ call' = [fn |-> "generate_all_scenarios", policy |-> p]
          /\ generated' = Append(generated, [policy |-> p, after |-> call.fn,
                                              scenarios |-> generate_all_scenarios])
    /\ ret' = "list"
    /\ UNCHANGED runvars

\* A call of evaluate returns.
EvaluateBetween ==
    /\ \E c \in EvaluateBetweenCalls :
          /\ call' = c
          /\ ret' = evaluate(c.audience, c.visibility, c.action,
                             c.is_owner, c.has_permission, c.same_org)
    /\ UNCHANGED <<generated, runvars>>

PolicyNext == GenerateAllScenarios \/ EvaluateBetween

PolicySpec == PolicyInit /\ [][PolicyNext]_vars

(***************************************************************************)
(* Properties of AuthorizationPolicy.evaluate and of the status            *)
(* classification, checked under PureSpec.                                 *)
(***************************************************************************)
Returned(fn) == call.fn = fn /\ ret # "pending"

\* C1: owner precedence. Every call of evaluate with is_owner = True returns
\* 'ALLOW', whatever the audience, visibility, action, has_permission and
\* same_org are, values outside the declared lists included.
C1_OwnerPrecedence ==
    Returned("evaluate") /\ call.is_owner => ret = "ALLOW"

\* An owner call on a private file, with an action no rule grants a non-owner
\* and no permission, has returned.
C1_Witness ==
    /\ Returned("evaluate")
    /\ call.is_owner
    /\ call.visibility = "private"
    /\ call.action = "delete"
    /\ ~call.has_permission
    /\ ret = "ALLOW"

\* C2: view-link restriction. For a non-owner on 'public_view_link', evaluate
\* returns 'ALLOW' exactly when the action is 'read' and has_permission is
\* True, and 'DENY' in every other case (write, delete and share with
\* permission included).
C2_ViewLinkRestriction ==
    Returned("evaluate") /\ ~call.is_owner /\ call.visibility = "public_view_link"
        => ret = (IF call.action = "read" /\ call.has_permission THEN "ALLOW" ELSE "DENY")

\* A non-owner holding the view link tried to write and was denied.
C2_Witness ==
    /\ Returned("evaluate")
    /\ ~call.is_owner
    /\ call.visibility = "public_view_link"
    /\ call.action = "write"
    /\ call.has_permission
    /\ ret = "DENY"

\* C3: for a non-owner on 'private', 'public_edit_link' or 'collab_invite',
\* evaluate returns 'ALLOW' exactly when has_permission is True and the action
\* is 'read' or 'write'; delete and share are 'DENY' even with permission.
C3_ReadWriteWithPermission ==
    Returned("evaluate") /\ ~call.is_owner
        /\ call.visibility \in {"private", "public_edit_link", "collab_invite"}
        => ret = (IF call.has_permission /\ call.action \in {"read", "write"}
                  THEN "ALLOW" ELSE "DENY")

\* An invited collaborator with permission tried to delete and was denied.
C3_Witness ==
    /\ Returned("evaluate")
    /\ ~call.is_owner
    /\ call.visibility = "collab_invite"
    /\ call.action = "delete"
    /\ call.has_permission
    /\ ret = "DENY"

\* C4: totality. Every call of evaluate, on any combination of arguments,
\* returns one of 'ALLOW' and 'DENY' and nothing else.
C4_Totality ==
    Returned("evaluate") => ret \in {"ALLOW", "DENY"}

\* A call whose audience, visibility and action are all outside the declared
\* lists has returned a decision.
C4_Witness ==
    /\ Returned("evaluate")
    /\ call.audience \notin Range(AUDIENCES)
    /\ call.visibility \notin Range(VISIBILITY_LEVELS)
    /\ call.action \notin Range(ACTION_NAMES)
    /\ ret \in {"ALLOW", "DENY"}

\* What rules 2 to 5 grant a non-owner who has permission.
GrantedByRule(visibility, action) ==
    \/ visibility = "public_view_link" /\ action = "read"
    \/ /\ visibility \in {"private", "public_edit_link", "collab_invite"}
       /\ action \in {"read", "write"}

\* C5: default-deny closure. For a non-owner, a visibility outside the four
\* rule-covered classes, or an action no rule grants for the visibility (an
\* action outside read, write, delete, share included), resolves to 'DENY'
\* whatever has_permission is.
C5_DefaultDeny ==
    Returned("evaluate") /\ ~call.is_owner
        /\ ~GrantedByRule(call.visibility, call.action)
        => ret = "DENY"

\* A non-owner with permission read a file of a visibility no rule names,
\* and was denied.
C5_Witness ==
    /\ Returned("evaluate")
    /\ ~call.is_owner
    /\ call.has_permission
    /\ call.visibility = "public"
    /\ call.action = "read"
    /\ ret = "DENY"

\* C6: status classification. In every framework 200 and 201 are classified
\* ALLOW, 400, 401, 403 and 404 DENY, and every other status code UNKNOWN.
C6_StatusClassification ==
    Returned("classify")
        => ret = (IF call.status_code \in {200, 201} THEN "ALLOW"
                  ELSE IF call.status_code \in {400, 401, 403, 404} THEN "DENY"
                  ELSE "UNKNOWN")

(***************************************************************************)
(* Properties of a run of a main script, checked under Spec.               *)
(***************************************************************************)
\* The places <<instance, position>> of the results held.
ResultPlaces == UNION {{<<i, n>> : n \in DOMAIN test_results[i]} : i \in Instances}

ResultAt(p) == test_results[p[1]][p[2]]

\* The calls of the log made for a scenario.
ScenarioCalls(sid) == {k \in DOMAIN remote_log : remote_log[k].sid = sid}

\* C7: when the remote call made for a scenario raises, test_scenario returns
\* a result with actual = 'ERROR' and passed = False, and no exception
\* reaches its caller.
C7_RaiseBecomesError ==
    \A k \in DOMAIN remote_log :
        remote_log[k].sid > 0 /\ remote_log[k].answer.raised
            => /\ pc # "run_raised"
               /\ \E p \in ResultPlaces :
                     /\ ResultAt(p).scenario_id = remote_log[k].sid
                     /\ ResultAt(p).actual = "ERROR"
                     /\ ~ResultAt(p).passed

CreationFailed ==
    \E k \in DOMAIN remote_log :
        /\ remote_log[k].op = "create_file"
        /\ \/ remote_log[k].answer.raised
           \/ remote_log[k].answer.status_code \notin {200, 201}

\* C8: if resource creation fails for any visibility during setup, the run is
\* aborted before any scenario executes: no remote call is made for a
\* scenario and no result is appended.
C8_CreationFailureAborts ==
    CreationFailed => /\ \A i \in Instances : test_results[i] = <<>>
                      /\ \A k \in DOMAIN remote_log : remote_log[k].sid = 0

\* Every generated scenario has exactly one result.
OneResultPerScenario ==
    \A k \in DOMAIN generate_all_scenarios :
        Cardinality({p \in ResultPlaces : ResultAt(p).scenario_id = k}) = 1

\* C9: a scenario whose dispatch ends in ERROR does not abort the run: a
\* main script that entered its run loop ends holding one result for every
\* scenario, also when remote calls raised.
C9_ErrorDoesNotAbort ==
    pc \in {"analyze", "export", "analyze_raised", "done", "run_raised"} => OneResultPerScenario

\* C10: a result for a scenario whose visibility has no entry in the fixture
\* mapping has actual = 'ERROR' and passed = False (never DENY), and no
\* remote call was made for that scenario.
C10_MissingFixtureIsError ==
    \A p \in ResultPlaces :
        ResultAt(p).scenario.visibility \notin DOMAIN test_files[p[1]]
            => /\ ResultAt(p).actual = "ERROR"
               /\ ~ResultAt(p).passed
               /\ ScenarioCalls(ResultAt(p).scenario_id) = {}

\* In test_framework.py the creation of the invite fixture failed, and a
\* non-owner scenario expected DENY on it has its result.
C10_Witness ==
    /\ engine = "single"
    /\ "collab_invite" \notin DOMAIN test_files["normal_user"]
    /\ \E p \in ResultPlaces :
          /\ p[1] = "normal_user"
          /\ ResultAt(p).scenario.visibility = "collab_invite"
          /\ ResultAt(p).expected = "DENY"
          /\ ResultAt(p).actual = "ERROR"

(***************************************************************************)
(* Fixtures, dispatch and results of a run, checked under Spec.            *)
(***************************************************************************)
\* The create_file calls of the log that created the fixture of visibility v.
Creations(v) ==
    {k \in DOMAIN remote_log :
        /\ remote_log[k].op = "create_file"
        /\ remote_log[k].target = <<"path", v>>
        /\ ~remote_log[k].answer.raised
        /\ remote_log[k].answer.status_code \in {200, 201}}

\* The framework objects whose pass has begun.
PassesBegun ==
    IF engine = "multi" THEN {"multi"} ELSE {AUDIENCES[n] : n \in 1..pass}

\* C11: after a provisioning that reported success, every visibility a
\* generated scenario references has exactly one fixture, created once, and
\* every identity pass holds that same fixture: no generated scenario lacks a
\* fixture.
C11_FixtureForEveryScenario ==
    pc \notin {"setup", "setup_raised", "aborted"}
        => \A k \in DOMAIN generate_all_scenarios :
              LET v == generate_all_scenarios[k].visibility
              IN  /\ Cardinality(Creations(v)) = 1
                  /\ \A i \in PassesBegun :
                        /\ v \in DOMAIN test_files[i]
                        /\ test_files[i][v].id = <<"item", v>>

\* The id of the generated 'read' scenario of the same audience and
\* visibility as scenario sid.
ReadScenarioOf ==
    [sid \in DOMAIN generate_all_scenarios |->
        CHOOSE r \in DOMAIN generate_all_scenarios :
            /\ generate_all_scenarios[r].audience = generate_all_scenarios[sid].audience
            /\ generate_all_scenarios[r].visibility = generate_all_scenarios[sid].visibility
            /\ generate_all_scenarios[r].action = "read"]

\* C12: delete is never executed destructively. No delete operation is ever
\* issued to the remote service, and the call made for a 'delete' scenario is
\* the call made for the 'read' scenario of the same identity and visibility:
\* same client, same operation, same target (same access path).
C12_DeleteIsReadProxy ==
    \A k \in DOMAIN remote_log :
        /\ remote_log[k].op \notin {"delete_file", "delete_file_via_share"}
        /\ remote_log[k].sid > 0
           /\ generate_all_scenarios[remote_log[k].sid].action = "delete"
           => \E j \in ScenarioCalls(ReadScenarioOf[remote_log[k].sid]) :
                 /\ remote_log[j].client = remote_log[k].client
                 /\ remote_log[j].op = remote_log[k].op
                 /\ remote_log[j].target = remote_log[k].target
                 /\ remote_log[j].op \in {"read_file", "read_file_via_share"}

\* The invited user's 'delete' on the edit-link fixture went out as a read
\* through the sharing reference, and the owner's 'delete' on the same fixture
\* as a read of the item.
C12_Witness ==
    /\ \E k \in DOMAIN remote_log :
          /\ remote_log[k].sid > 0
          /\ generate_all_scenarios[remote_log[k].sid].action = "delete"
          /\ remote_log[k].client = "invited_user"
          /\ remote_log[k].op = "read_file_via_share"
          /\ remote_log[k].target = <<"share", "public_edit_link">>
    /\ \E k \in DOMAIN remote_log :
          /\ remote_log[k].sid > 0
          /\ generate_all_scenarios[remote_log[k].sid].action = "delete"
          /\ remote_log[k].client = "owner"
          /\ remote_log[k].op = "read_file"
          /\ remote_log[k].target = <<"item", "public_edit_link">>

\* C13: every result satisfies passed = (expected = actual) with expected one
\* of ALLOW and DENY, the frozen expectation of its scenario; so a result
\* whose actual is UNKNOWN or ERROR has passed = False, and a 404 answer is
\* recorded as DENY, with passed = False when ALLOW was expected.
C13_PassedIsExpectedEqualsActual ==
    /\ \A p \in ResultPlaces :
          LET r == ResultAt(p)
          IN  /\ r.passed = (r.expected = r.actual)
              /\ r.expected \in {"ALLOW", "DENY"}
              /\ r.expected = generate_all_scenarios[r.scenario_id].expected
              /\ r.actual \in {"UNKNOWN", "ERROR"} => ~r.passed
    /\ \A k \in DOMAIN remote_log :
          remote_log[k].sid > 0 /\ remote_log[k].answer = Answered(404)
              => \A p \in ResultPlaces :
                    ResultAt(p).scenario_id = remote_log[k].sid
                        => /\ ResultAt(p).actual = "DENY"
                           /\ ResultAt(p).expected = "ALLOW" => ~ResultAt(p).passed

\* The remote service answered 404 to a scenario expected ALLOW: the result
\* holds DENY and did not pass.
C13_Witness ==
    \E p \in ResultPlaces :
        /\ ResultAt(p).expected = "ALLOW"
        /\ ResultAt(p).actual = "DENY"
        /\ ~ResultAt(p).passed
        /\ \E k \in ScenarioCalls(ResultAt(p).scenario_id) :
              remote_log[k].answer = Answered(404)

(***************************************************************************)
(* Properties of AuthorizationPolicy.generate_all_scenarios, checked under *)
(* PolicySpec.                                                             *)
(***************************************************************************)
\* C14: generate_all_scenarios returns exactly 3 x 4 x 4 = 48 scenarios,
\* enumerated audience-major, visibility-middle, action-minor, and the
\* scenario at 1-based position k has scenario_id = k.
C14_EnumerationOrder ==
    \A n \in DOMAIN generated :
        LET list == generated[n].scenarios
        IN  /\ Len(list) = 48
            /\ Len(list) = Len(AUDIENCES) * Len(VISIBILITY_LEVELS) * Len(ACTION_NAMES)
            /\ \A k \in DOMAIN list :
                  /\ list[k].scenario_id = k
                  /\ list[k].audience = AUDIENCES[((k - 1) \div 16) + 1]
                  /\ list[k].visibility = VISIBILITY_LEVELS[(((k - 1) \div 4) % 4) + 1]
                  /\ list[k].action = ACTION_NAMES[((k - 1) % 4) + 1]

\* A call has returned a list whose first scenario is owner/private/read, whose
\* second differs from it in the action only, whose fifth starts the second
\* visibility and whose last is normal_user/collab_invite/share with id 48.
C14_Witness ==
    \E n \in DOMAIN generated :
        LET list == generated[n].scenarios
        IN  /\ Len(list) = 48
            /\ <<list[1].scenario_id, list[1].audience, list[1].visibility, list[1].action>>
                   = <<1, "owner", "private", "read">>
            /\ <<list[2].audience, list[2].visibility, list[2].action>>
                   = <<"owner", "private", "write">>
            /\ <<list[5].audience, list[5].visibility, list[5].action>>
                   = <<"owner", "public_view_link", "read">>
            /\ <<list[48].scenario_id, list[48].audience, list[48].visibility, list[48].action>>
                   = <<48, "normal_user", "collab_invite", "share">>

\* C15: for every generated scenario, is_owner = (audience = 'owner');
\* has_permission is True on public_view_link and public_edit_link whatever
\* the audience, True on collab_invite only for invited_user, False
\* otherwise; and expected is what evaluate returns on the scenario's own
\* audience, visibility, action, is_owner and has_permission.
C15_ContextAndExpectation ==
    \A n \in DOMAIN generated :
        \A k \in DOMAIN generated[n].scenarios :
            LET s == generated[n].scenarios[k]
            IN  /\ s.is_owner = (s.audience = "owner")
                /\ s.has_permission =
                       (\/ s.visibility \in {"public_view_link", "public_edit_link"}
                        \/ s.visibility = "collab_invite" /\ s.audience = "invited_user")
                /\ s.expected = evaluate(s.audience, s.visibility, s.action,
                                         s.is_owner, s.has_permission, FALSE)

\* A returned list holds the read on collab_invite of the invited user, with
\* permission and expected ALLOW, that of the normal user, without permission
\* and expected DENY, and the owner's read of a view link, with permission.
C15_Witness ==
    \E n \in DOMAIN generated :
        LET list == generated[n].scenarios
        IN  /\ \E k \in DOMAIN list :
                  /\ <<list[k].audience, list[k].visibility, list[k].action>>
                         = <<"invited_user", "collab_invite", "read">>
                  /\ list[k].has_permission /\ ~list[k].is_owner
                  /\ list[k].expected = "ALLOW"
            /\ \E k \in DOMAIN list :
                  /\ <<list[k].audience, list[k].visibility, list[k].action>>
                         = <<"normal_user", "collab_invite", "read">>
                  /\ ~list[k].has_permission /\ ~list[k].is_owner
                  /\ list[k].expected = "DENY"
            /\ \E k \in DOMAIN list :
                  /\ <<list[k].audience, list[k].visibility, list[k].action>>
                         = <<"owner", "public_view_link", "read">>
                  /\ list[k].has_permission /\ list[k].is_owner

RECURSIVE TableSum(_, _)
TableSum(table, n) == IF n = 0 THEN 0 ELSE TableSum(table, n - 1) + table[n].count

\* C17: the aggregate over a result list reports total, passed and failed
\* with total = passed + failed, and for the failed subset builds three
\* frequency tables, by audience, by action and by visibility, the counts of
\* each summing to failed.
C17_ThreeFailureTables ==
    \A i \in Instances :
        reports[i].analyzed
            => /\ reports[i].total = Len(test_results[i])
               /\ reports[i].total = reports[i].passed + reports[i].failed
               /\ reports[i].failed > 0
                  => /\ DOMAIN reports[i].tables = {"audience", "action", "visibility"}
                     /\ \A f \in DOMAIN reports[i].tables :
                           TableSum(reports[i].tables[f], Len(reports[i].tables[f]))
                               = reports[i].failed

\* The results of a list that did not pass with the opposite policy decision.
Mismatches(results) ==
    {k \in DOMAIN results : ~results[k].passed /\ results[k].actual \in {"ALLOW", "DENY"}}

\* C18: the aggregate report keeps UNKNOWN and ERROR outcomes apart from
\* genuine ALLOW/DENY mismatches: the failure counts it reports (failed, and
\* the rows of each failure table) count the mismatches only.
C18_InconclusiveKeptApart ==
    \A i \in Instances :
        /\ reports[i].analyzed
           => /\ reports[i].failed = Cardinality(Mismatches(test_results[i]))
              /\ \A f \in DOMAIN reports[i].tables :
                    TableSum(reports[i].tables[f], Len(reports[i].tables[f]))
                        = Cardinality(Mismatches(test_results[i]))
        /\ exports[i].analyzed
           => exports[i].failed = Cardinality(Mismatches(test_results[i]))

\* The framework object that runs the scenarios of an audience.
InstanceOf(audience) == IF engine = "single" THEN audience ELSE "multi"

\* The sharing reference a fixture holds, NoRef when it holds none.
SharingRef(fixture) == IF engine = "single" THEN fixture.share_id ELSE fixture.share_link

ViaShareOps == {"read_file_via_share", "update_file_via_share", "share_file_via_share"}

\* C19: access path selection. The call made for a scenario goes through the
\* sharing reference exactly when the testing identity is not the owner and a
\* sharing reference exists for the scenario's visibility; the owner, and any
\* identity on a visibility without a sharing reference, go through the
\* primary identifier of the fixture.
C19_AccessPath ==
    \A k \in DOMAIN remote_log :
        remote_log[k].sid > 0
            => LET s == generate_all_scenarios[remote_log[k].sid]
                   fixture == test_files[InstanceOf(s.audience)][s.visibility]
                   via_share == s.audience # "owner" /\ SharingRef(fixture) # NoRef
               IN  IF via_share
                   THEN /\ remote_log[k].target = SharingRef(fixture)
                        /\ remote_log[k].op \in ViaShareOps
                   ELSE /\ remote_log[k].target = fixture.id
                        /\ remote_log[k].op \notin ViaShareOps

\* The invited user wrote the edit-link fixture through its sharing
\* reference, the owner wrote it through the item id, and the normal user
\* read the private fixture, which has no sharing reference, through the item
\* id.
C19_Witness ==
    /\ \E k \in DOMAIN remote_log :
          /\ remote_log[k].sid > 0
          /\ remote_log[k].client = "invited_user"
          /\ remote_log[k].op = "update_file_via_share"
          /\ remote_log[k].target = <<"share", "public_edit_link">>
    /\ \E k \in DOMAIN remote_log :
          /\ remote_log[k].sid > 0
          /\ remote_log[k].client = "owner"
          /\ remote_log[k].op = "update_file"
          /\ remote_log[k].target = <<"item", "public_edit_link">>
    /\ \E k \in DOMAIN remote_log :
          /\ remote_log[k].sid > 0
          /\ remote_log[k].client = "normal_user"
          /\ remote_log[k].op = "read_file"
          /\ remote_log[k].target = <<"item", "private">>

\* The clients the calls made for the scenarios of an audience went through.
ClientsOf(audience) ==
    {remote_log[k].client : k \in {j \in DOMAIN remote_log :
        /\ remote_log[j].sid > 0
        /\ generate_all_scenarios[remote_log[j].sid].audience = audience}}

\* C20: each identity maps to exactly one credential and one client for the
\* whole run: two distinct identities never dispatch through the same client,
\* and the scenarios of one identity never dispatch through more than one
\* client.
C20_OneClientPerIdentity ==
    \A a \in Range(AUDIENCES) :
        /\ Cardinality(ClientsOf(a)) <= 1
        /\ \A b \in Range(AUDIENCES) \ {a} : ClientsOf(a) \cap ClientsOf(b) = {}

(***************************************************************************)
(* Order of a run, checked under Spec.                                     *)
(***************************************************************************)
\* The ids of the generated scenarios of each audience.
IdsOf ==
    [a \in Range(AUDIENCES) |->
        {k \in DOMAIN generate_all_scenarios : generate_all_scenarios[k].audience = a}]

OwnerIds == IdsOf["owner"]

\* A call or a result of a scenario of another audience than the owner exists.
NonOwnerBegun ==
    \/ \E k \in DOMAIN remote_log : remote_log[k].sid \notin OwnerIds \cup {0}
    \/ \E i \in Instances : \E n \in DOMAIN test_results[i] :
          test_results[i][n].scenario_id \notin OwnerIds

\* What a step adds to the log of remote calls keeps its order: a
\* provisioning call (made by the owner's client, but for the collaborator's
\* get_user_info) never follows the call of a scenario, and the call of an
\* owner scenario never follows that of a scenario of another audience.
CallsInRunOrder ==
    /\ Len(remote_log') >= Len(remote_log)
    /\ SubSeq(remote_log', 1, Len(remote_log)) = remote_log
    /\ \A k \in (Len(remote_log) + 1)..Len(remote_log') :
          /\ remote_log'[k].op \in {"create_file", "invite_user"} => remote_log'[k].sid = 0
          /\ remote_log'[k].sid = 0
             => /\ remote_log'[k].op # "get_user_info" => remote_log'[k].client = "owner"
                /\ k > 1 => remote_log'[k - 1].sid = 0
          /\ remote_log'[k].sid \in OwnerIds /\ k > 1
             => remote_log'[k - 1].sid \in OwnerIds \cup {0}

\* Results exist only after provisioning; once a scenario of another audience
\* was dispatched or has a result, the owner's pass is complete and the
\* framework object of that audience holds the owner's fixture mapping.
OwnerPassFirst ==
    /\ ResultPlaces # {} => pc \notin {"setup", "setup_raised", "aborted"}
    /\ NonOwnerBegun
       => LET own == test_results[InstanceOf("owner")]
          IN  /\ Len(own) >= Cardinality(OwnerIds)
              /\ {own[n].scenario_id : n \in 1..Cardinality(OwnerIds)} = OwnerIds
              /\ \A a \in Range(AUDIENCES) :
                    (\E k \in DOMAIN remote_log : remote_log[k].sid \in IdsOf[a])
                        => test_files[InstanceOf(a)] = test_files[InstanceOf("owner")]

\* C21: run ordering. Provisioning, made by the owner, completes before any
\* scenario is executed; every owner scenario has its result before the
\* first invited_user or normal_user scenario is dispatched; and the
\* non-owner passes run against the fixture mapping the owner's provisioning
\* produced.
C21_RunOrdering == [](OwnerPassFirst) /\ [][CallsInRunOrder]_vars

\* In test_framework.py the invited user's pass has dispatched a scenario
\* through the sharing reference the owner's setup stored, after the sixteen
\* results of the owner's pass.
C21_Witness ==
    /\ engine = "single"
    /\ Len(test_results["owner"]) = 16
    /\ "public_view_link" \in DOMAIN test_files["owner"]
    /\ \E k \in DOMAIN remote_log :
          /\ remote_log[k].sid > 0
          /\ remote_log[k].client = "invited_user"
          /\ remote_log[k].target = test_files["owner"]["public_view_link"].share_id

\* The ids of the generated scenarios the pass of a framework object is to run.
PassIds ==
    [i \in Instances |->
        IF i = "multi" THEN DOMAIN generate_all_scenarios
        ELSE {k \in DOMAIN generate_all_scenarios : generate_all_scenarios[k].audience = i}]

\* The framework objects whose pass is over.
PassesOver ==
    {i \in PassesBegun :
        \/ pc \in {"analyze", "export", "analyze_raised", "done"}
        \/ engine = "single" /\ i # AUDIENCES[pass]}

\* A pass that is over holds one result for each of its scenarios.
PassComplete ==
    \A i \in PassesOver :
        {test_results[i][n].scenario_id : n \in DOMAIN test_results[i]} = PassIds[i]

\* A step leaves every result list as it is, but for at most one, to which it
\* appends one result, of a scenario of the pass that comes later in
\* generation order than the scenario of the result before it.
OnlyAppends ==
    /\ \A i \in Instances :
          \/ test_results'[i] = test_results[i]
          \/ /\ Len(test_results'[i]) = Len(test_results[i]) + 1
             /\ SubSeq(test_results'[i], 1, Len(test_results[i])) = test_results[i]
             /\ test_results'[i][Len(test_results'[i])].scenario_id \in PassIds[i]
             /\ test_results[i] # <<>>
                => test_results[i][Len(test_results[i])].scenario_id
                       < test_results'[i][Len(test_results'[i])].scenario_id
    /\ Cardinality({i \in Instances : test_results'[i] # test_results[i]}) <= 1

\* A step makes at most one call for a scenario, of a scenario that comes
\* later in generation order than every scenario called before: no scenario
\* is called twice.
NoRetry ==
    /\ Cardinality({k \in (Len(remote_log) + 1)..Len(remote_log') :
                       remote_log'[k].sid > 0}) <= 1
    /\ \A k \in (Len(remote_log) + 1)..Len(remote_log') :
          remote_log'[k].sid > 0 /\ k > 1 => remote_log'[k - 1].sid < remote_log'[k].sid

FirstFailure(results, field, key) ==
    CHOOSE n \in DOMAIN results :
        /\ ~results[n].passed /\ results[n].scenario[field] = key
        /\ \A m \in 1..(n - 1) : results[m].passed \/ results[m].scenario[field] # key

\* C23: each failure frequency table is listed in descending order of count,
\* and two categories of equal count are listed in the order in which their
\* first failure occurred in the result list.
C23_TablesSortedStable ==
    \A i \in Instances :
        reports[i].analyzed
            => \A f \in DOMAIN reports[i].tables :
                  LET table == reports[i].tables[f]
                  IN  \A r \in 1..(Len(table) - 1) :
                         /\ table[r].count >= table[r + 1].count
                         /\ table[r].count = table[r + 1].count
                            => FirstFailure(test_results[i], f, table[r].key)
                                   < FirstFailure(test_results[i], f, table[r + 1].key)

\* A table lists two categories of equal count ahead of a category that failed
\* first but less often.
C23_Witness ==
    \E i \in Instances :
        /\ reports[i].analyzed
        /\ \E f \in DOMAIN reports[i].tables :
              LET table == reports[i].tables[f]
              IN  /\ Len(table) >= 3
                  /\ table[1].count = table[2].count
                  /\ table[2].count > table[Len(table)].count
                  /\ FirstFailure(test_results[i], f, table[Len(table)].key)
                         < FirstFailure(test_results[i], f, table[1].key)
                  /\ FirstFailure(test_results[i], f, table[1].key)
                         < FirstFailure(test_results[i], f, table[2].key)

(***************************************************************************)
(* Non-interference of evaluate, checked under PureSpec.                   *)
(***************************************************************************)
\* C24: the decision of evaluate depends only on visibility, action, is_owner
\* and has_permission: a call that agrees with the returned call on these
\* four returns the same outcome, whatever its audience and same_org are.
C24_DependsOnFourInputs ==
    Returned("evaluate")
        => \A audience \in AudienceArgs, same_org \in BOOLEAN :
              evaluate(audience, call.visibility, call.action,
                       call.is_owner, call.has_permission, same_org) = ret

\* A call for an audience outside the declared list, with same_org set, was
\* denied the write a view link gives no right to, as the same call is for
\* the normal user without same_org.
C24_Witness ==
    /\ Returned("evaluate")
    /\ call.audience = "org_member"
    /\ call.same_org
    /\ ~call.is_owner
    /\ call.has_permission
    /\ call.visibility = "public_view_link"
    /\ call.action = "write"
    /\ ret = "DENY"
    /\ evaluate("normal_user", call.visibility, call.action,
                call.is_owner, call.has_permission, FALSE) = ret

(***************************************************************************)
(* Effects of the scenarios on the fixtures, checked under Spec.           *)
(***************************************************************************)
\* The client methods that create a sharing link or an invitation.
SharingOps == {"share_file", "share_file_via_share", "invite_user"}

\* C25: executing scenarios never changes the sharing state a fixture was
\* provisioned in: no call made for a scenario has created a sharing link or
\* an invitation, and in particular none on the fixture provisioned as
\* 'private' (the owner's 'share' scenarios included).
C25_ScenariosLeaveSharingState ==
    \A k \in DOMAIN remote_log :
        remote_log[k].sid > 0 /\ remote_log[k].op \in SharingOps
            => \/ remote_log[k].answer.raised
               \/ remote_log[k].answer.status_code \notin {200, 201}

(***************************************************************************)
(* analyze_results called on a result list, checked under PureSpec.        *)
(***************************************************************************)
\* C26: analyze_results completes without raising for every result list a run
\* can leave behind, the empty list included.
C26_AnalyzeNeverRaises ==
    Returned("analyze_results") => ret = "none"

====
